---- MODULE Spec2Model ----
(***************************************************************************)
(* A model of paired_dataset.py: center_crop, VolumeDataset,               *)
(* DummyVolumeDataset, AlignedVolumesDataset and get_paired_volume_datasets.*)
(*                                                                         *)
(* Arrays.  A numpy array of rank >= 2 is a record                         *)
(*   [lead, h, w, mats, dtype, den]                                        *)
(* lead is the shape of the leading axes (<<>> for a rank-2 array), h and  *)
(* w are the sizes of the last two axes, mats is the sequence of h x w     *)
(* matrices in row-major order of the leading axes, each a sequence of     *)
(* rows.  The pixel stored at a position is a number: 0 is the value zero, *)
(* a positive number names the stored pixel (one name per position of the  *)
(* input), so that two arrays are equal exactly when they hold the same    *)
(* pixels at the same places.  den is the scalar every pixel has been      *)
(* divided by (1 for an array that was never normalised).                  *)
(*                                                                         *)
(* Specifications.  SpecCrop applies center_crop to an array and back.     *)
(* SpecVolume builds the accessor of one volume in both flattening modes   *)
(* and reads slices.  SpecGroup builds one group of one or two volumes and *)
(* reads it.  SpecExchange builds several groups with one protocals list.  *)
(* SpecHandles interleaves the calls of several workers and follows the    *)
(* file handles they open.                                                 *)
(***************************************************************************)
EXTENDS Integers, Sequences, FiniteSets, TLC

VARIABLES
    \* center_crop applied to an array and back
    ccData, ccShape, ccOut, ccBack, ccPc,
    \* one volume file, one configuration, the accessor built from it in each
    \* flattening mode and the last slice each returned
    vFile, vQ, vCrop, vObj, vGot,
    \* the groups built with one protocals list: the file lists still to come,
    \* the configuration, the caller's list, the last file list used, the last
    \* group built, the last answer of its get, and (for the record) the
    \* caller's original list, the number of constructions and the number of
    \* them that took the reversal branch
    gManifest, gConf, gProtocals, gLine, gGroup, gImages, gOrig, gCount, gFlips,
    \* workers calling VolumeDataset(...) and dataset[index] on one shared
    \* instance: where each worker is, the arguments of its call, the handle
    \* its call holds, the handles no call holds any more, the instance
    hPc, hArg, hHeld, hLeaked, hObj

ccVars == <<ccData, ccShape, ccOut, ccBack, ccPc>>
vVars == <<vFile, vQ, vCrop, vObj, vGot>>
gVars == <<gManifest, gConf, gProtocals, gLine, gGroup, gImages, gOrig, gCount, gFlips>>
hVars == <<hPc, hArg, hHeld, hLeaked, hObj>>
vars == <<ccVars, vVars, gVars, hVars>>

\* ------------------------------------------------------------ bounds
MaxDim == 2
MaxLead == 2
MaxLen == 3
MaxCh == 2
MaxGroups == 2
MaxList == 2
NWorkers == 2
MaxLeaked == 2

\* ------------------------------------------------------------ state not in use
NoArray == [lead |-> <<>>, h |-> 0, w |-> 0, mats |-> <<<<>>>>, dtype |-> "none", den |-> 1]

NoFile == [field |-> "none", shape |-> <<>>, acquisition |-> "", max |-> 1]

NoObject == [state |-> "none"]

NoResult == [index |-> -1, res |-> NoObject]

CropIdle ==
    /\ ccData = NoArray
    /\ ccShape = <<0, 0>>
    /\ ccOut = NoArray
    /\ ccBack = NoArray
    /\ ccPc = "unused"

VolumeIdle ==
    /\ vFile = NoFile
    /\ vQ = <<0, 1>>
    /\ vCrop = <<>>
    /\ vObj = [f \in BOOLEAN |-> NoObject]
    /\ vGot = [f \in BOOLEAN |-> NoResult]

GroupIdle ==
    /\ gManifest = <<>>
    /\ gConf = [crop |-> <<>>, q |-> <<0, 1>>, flatten_channels |-> FALSE,
                exchange_Modal |-> FALSE]
    /\ gProtocals = <<>>
    /\ gLine = <<>>
    /\ gGroup = NoObject
    /\ gImages = NoResult
    /\ gOrig = <<>>
    /\ gCount = 0
    /\ gFlips = 0

Workers == 1..NWorkers

NoCall == [op |-> "none"]

HandlesIdle ==
    /\ hPc = [w \in Workers |-> "idle"]
    /\ hArg = [w \in Workers |-> NoCall]
    /\ hHeld = [w \in Workers |-> 0]
    /\ hLeaked = 0
    /\ hObj = NoObject

\* ------------------------------------------------------------ arrays
RECURSIVE Prod(_)
Prod(s) == IF s = <<>> THEN 1 ELSE Head(s) * Prod(Tail(s))

Rank(a) == Len(a.lead) + 2

ZeroRow(w) == [c \in 1..w |-> 0]

ZeroRows(n, w) == [r \in 1..n |-> ZeroRow(w)]

\* data[..., from:to, :]
SliceRows(a, from, to) ==
    [a EXCEPT !.h = to - from,
              !.mats = [k \in DOMAIN a.mats |-> SubSeq(a.mats[k], from + 1, to)]]

\* data[..., :, from:to]
SliceCols(a, from, to) ==
    [a EXCEPT !.w = to - from,
              !.mats = [k \in DOMAIN a.mats |->
                          [r \in DOMAIN a.mats[k] |-> SubSeq(a.mats[k][r], from + 1, to)]]]

\* np.pad(data, pad_width, mode='constant', constant_values=0) with pad[-2] = (before, after)
PadRows(a, before, after) ==
    [a EXCEPT !.h = before + a.h + after,
              !.mats = [k \in DOMAIN a.mats |->
                          ZeroRows(before, a.w) \o a.mats[k] \o ZeroRows(after, a.w)]]

\* np.pad(data, pad_width, mode='constant', constant_values=0) with pad[-1] = (before, after)
PadCols(a, before, after) ==
    [a EXCEPT !.w = before + a.w + after,
              !.mats = [k \in DOMAIN a.mats |->
                          [r \in DOMAIN a.mats[k] |->
                              ZeroRow(before) \o a.mats[k][r] \o ZeroRow(after)]]]

\* ------------------------------------------------------------ center_crop
\* a crop offset rounded up instead of down
w_from_ceil(size, target) == (size - target + 1) \div 2

w_from(size, target) == (size - target) \div 2

w_before(size, target) == (target - size) \div 2

w_after(size, target) == target - size - w_before(size, target)

h_from(size, target) == (size - target) \div 2

\* a pad offset rounded up instead of down
h_before_ceil(size, target) == (target - size + 1) \div 2

h_before(size, target) == (target - size) \div 2

h_after(size, target) == target - size - h_before(size, target)

\* shape is <<shape[0], shape[1]>>: shape[0] is applied to axis -2, shape[1] to axis -1
center_crop(data, shape) ==
    LET d1 == IF shape[1] <= data.h
              THEN SliceRows(data, w_from(data.h, shape[1]),
                                   w_from(data.h, shape[1]) + shape[1])
              ELSE PadRows(data, w_before(data.h, shape[1]), w_after(data.h, shape[1]))
    IN  IF shape[2] <= d1.w
        THEN SliceCols(d1, h_from(d1.w, shape[2]), h_from(d1.w, shape[2]) + shape[2])
        ELSE PadCols(d1, h_before(d1.w, shape[2]), h_after(d1.w, shape[2]))

\* ------------------------------------------------------------ inputs of center_crop
Leads == {<<>>} \cup {<<n>> : n \in 1..MaxLead}

Dims == 0..MaxDim

Targets == 0..(MaxDim + 1)

\* The array of the given shape whose pixel at a place is zero where mask says so
\* and the name of the place elsewhere.
MaskedArray(lead, h, w, mask) ==
    [lead |-> lead, h |-> h, w |-> w,
     mats |-> [k \in 1..Prod(lead) |->
                [r \in 1..h |->
                  [c \in 1..w |->
                    IF mask[r][c] THEN (k - 1) * h * w + (r - 1) * w + c ELSE 0]]],
     dtype |-> "float64", den |-> 1]

CropInit ==
    /\ \E lead \in Leads, h \in Dims, w \in Dims :
         \E mask \in [1..h -> [1..w -> BOOLEAN]] :
            ccData = MaskedArray(lead, h, w, mask)
    /\ ccShape \in Targets \X Targets
    /\ ccOut = NoArray
    /\ ccBack = NoArray
    /\ ccPc = "input"
    /\ VolumeIdle
    /\ GroupIdle
    /\ HandlesIdle

\* out = center_crop(A, target)
Crop ==
    /\ ccPc = "input"
    /\ ccOut' = center_crop(ccData, ccShape)
    /\ ccPc' = "cropped"
    /\ UNCHANGED <<ccData, ccShape, ccBack, vVars, gVars, hVars>>

\* back = center_crop(out, A.shape[-2:])
CropBack ==
    /\ ccPc = "cropped"
    /\ ccBack' = center_crop(ccOut, <<ccData.h, ccData.w>>)
    /\ ccPc' = "back"
    /\ UNCHANGED <<ccData, ccShape, ccOut, vVars, gVars, hVars>>

CropNext == Crop \/ CropBack

SpecCrop == CropInit /\ [][CropNext]_vars

\* ------------------------------------------------------------ volume files
\* An HDF5 volume: the name of its dataset ("image", "kspace"), the dataset's
\* shape ([length, H, W] or [length, C, H, W]) and the attributes acquisition
\* and max.
File(field, shape, acquisition, max) ==
    [field |-> field, shape |-> shape, acquisition |-> acquisition, max |-> max]

FileH(file) == file.shape[Len(file.shape) - 1]

FileW(file) == file.shape[Len(file.shape)]

\* The number of matrices per raw slice.
FileC(file) == IF Len(file.shape) = 4 THEN file.shape[2] ELSE 1

\* The name of the pixel stored at slice s, channel c, row r, column col (0-based).
PixelName(file, s, c, r, col) ==
    1 + ((s * FileC(file) + c) * FileH(file) + r) * FileW(file) + col

\* The slice and channel a pixel name stands for.
PixelSlice(file, name) == (name - 1) \div (FileC(file) * FileH(file) * FileW(file))

PixelChannel(file, name) == ((name - 1) \div (FileH(file) * FileW(file))) % FileC(file)

\* data[s] of the dataset (after the k-space reconstruction when the dataset is
\* "kspace": the reconstruction works on the last two axes and keeps every
\* matrix at its slice and channel, so the names then stand for the pixels of
\* the reconstructed image).
DataAt(file, s) ==
    [lead |-> IF Len(file.shape) = 4 THEN <<file.shape[2]>> ELSE <<>>,
     h |-> FileH(file), w |-> FileW(file),
     mats |-> [c \in 1..FileC(file) |->
                [r \in 1..FileH(file) |->
                  [col \in 1..FileW(file) |-> PixelName(file, s, c - 1, r - 1, col - 1)]]],
     dtype |-> IF file.field = "kspace" THEN "complex64" ELSE "float32",
     den |-> 1]

\* i[j] on the first axis (j 0-based)
Index0(a, j) ==
    LET per == Prod(Tail(a.lead))
    IN  [a EXCEPT !.lead = Tail(a.lead),
                  !.mats = SubSeq(a.mats, j * per + 1, (j + 1) * per)]

\* i[None, ...]
AddAxis(a) == [a EXCEPT !.lead = <<1>> \o a.lead]

\* ------------------------------------------------------------ VolumeDataset
\* Python's round of the non-negative rational n / d: to the nearest integer,
\* ties to the even one.  (length * q is a float product in the source; for the
\* quantiles used here, multiples of 1/8, it is exact.)
PyRound(n, d) ==
    LET f == n \div d
        r2 == 2 * (n % d)
    IN  IF r2 < d THEN f
        ELSE IF r2 > d THEN f + 1
        ELSE IF f % 2 = 0 THEN f ELSE f + 1

Raised(what) == [state |-> "raised", error |-> what]

\* VolumeDataset.__init__(volume, crop, q, flatten_channels); q is <<num, den>>,
\* crop is <<>> for None and <<n>> for n.
VolumeDataset(volume, crop, q, flatten_channels) ==
    IF ~(2 * q[1] < q[2]) THEN Raised("AssertionError")
    ELSE IF volume.field \notin {"image", "kspace"} THEN Raised("NameError")
    ELSE IF Len(volume.shape) = 3 /\ flatten_channels THEN Raised("AssertionError")
    ELSE IF Len(volume.shape) \notin {3, 4} THEN Raised("AssertionError")
    ELSE LET length == volume.shape[1]
             channels == IF Len(volume.shape) = 3 THEN 1 ELSE volume.shape[2]
             start == PyRound(length * q[1], q[2])
         IN  [state |-> "ok", volume |-> volume, flatten_channels |-> flatten_channels,
              crop |-> crop, channels |-> channels, protocal |-> volume.acquisition,
              start |-> start, stop |-> length - start]

\* VolumeDataset.__len__
VolumeLen(self) ==
    LET length == self.stop - self.start
    IN  IF self.flatten_channels THEN length * self.channels ELSE length

\* the trimmed slices are not skipped
RawSliceNoTrim(self, index) ==
    IF self.flatten_channels THEN index \div self.channels
                             ELSE index

\* the trimmed slices are skipped in one mode only
RawSliceFlatNoTrim(self, index) ==
    IF self.flatten_channels THEN index \div self.channels
                             ELSE index + self.start

\* The index given to data[...] by __getitem__(index).
RawSlice(self, index) ==
    IF self.flatten_channels THEN index \div self.channels + self.start
                             ELSE index + self.start

\* the channel axis is added whatever the rank of the slice
SelectAlwaysExtend(self, data, index) ==
    IF self.flatten_channels
    THEN AddAxis(Index0(data, index % self.channels))
    ELSE AddAxis(data)

\* The slice (and channel) __getitem__ takes out of data[RawSlice].
Select(self, data, index) ==
    IF self.flatten_channels
    THEN AddAxis(Index0(data, index % self.channels))
    ELSE IF Rank(data) = 3 THEN data ELSE AddAxis(data)

\* VolumeDataset.__getitem__(index), index >= 0
VolumeGetItem(self, index) ==
    IF RawSlice(self, index) \notin 0..(self.volume.shape[1] - 1) THEN Raised("IndexError")
    ELSE
    LET data == DataAt(self.volume, RawSlice(self, index))
        i1 == Select(self, data, index)
        i2 == [i1 EXCEPT !.den = self.volume.max]
        i3 == IF self.crop # <<>> THEN center_crop(i2, <<self.crop[1], self.crop[1]>>) ELSE i2
        i4 == IF Rank(i3) = 2 THEN AddAxis(i3) ELSE i3
    IN  [state |-> "ok", slice |-> RawSlice(self, index),
         item |-> [i4 EXCEPT !.dtype = "complex64"]]

\* ------------------------------------------------------------ one volume, both modes
\* q as <<numerator, denominator>>, 0 <= q < 0.5
Quantiles == {<<0, 1>>, <<1, 8>>, <<1, 4>>, <<3, 8>>}

Crops == {<<>>} \cup {<<n>> : n \in 1..(MaxDim + 1)}

Fields == {"image", "kspace"}

MaxVals == {2}

VolumeShapes ==
    {<<l, h, w>> : l \in 1..MaxLen, h \in 1..MaxDim, w \in 1..MaxDim}
    \cup {<<l, c, h, w>> : l \in 1..MaxLen, c \in 1..MaxCh, h \in 1..MaxDim, w \in 1..MaxDim}

VolumeInit ==
    /\ \E field \in Fields, shape \in VolumeShapes, max \in MaxVals :
          vFile = File(field, shape, "T1", max)
    /\ vQ \in Quantiles
    /\ vCrop \in Crops
    /\ vObj = [f \in BOOLEAN |-> NoObject]
    /\ vGot = [f \in BOOLEAN |-> NoResult]
    /\ CropIdle
    /\ GroupIdle
    /\ HandlesIdle

\* dataset = VolumeDataset(file, crop, q=q, flatten_channels=flat)
Construct(flat) ==
    /\ vObj[flat].state = "none"
    /\ vObj' = [vObj EXCEPT ![flat] = VolumeDataset(vFile, vCrop, vQ, flat)]
    /\ UNCHANGED <<vFile, vQ, vCrop, vGot, ccVars, gVars, hVars>>

\* dataset[index] for an index of range(len(dataset))
Get(flat, index) ==
    /\ vObj[flat].state = "ok"
    /\ index \in 0..(VolumeLen(vObj[flat]) - 1)
    /\ vGot' = [vGot EXCEPT ![flat] = [index |-> index, res |-> VolumeGetItem(vObj[flat], index)]]
    /\ UNCHANGED <<vFile, vQ, vCrop, vObj, ccVars, gVars, hVars>>

VolumeNext ==
    \/ \E flat \in BOOLEAN : Construct(flat)
    \/ \E flat \in BOOLEAN, index \in 0..(MaxLen * MaxCh) : Get(flat, index)

SpecVolume == VolumeInit /\ [][VolumeNext]_vars

\* ------------------------------------------------------------ DummyVolumeDataset
\* a.shape
Shape(a) == a.lead \o <<a.h, a.w>>

\* np.zeros(shape, dtype=dtype)
Zeros(shape, dtype) ==
    LET n == Len(shape)
        lead == SubSeq(shape, 1, n - 2)
    IN  [lead |-> lead, h |-> shape[n - 1], w |-> shape[n],
         mats |-> [k \in 1..Prod(lead) |-> ZeroRows(shape[n - 1], shape[n])],
         dtype |-> dtype, den |-> 1]

\* DummyVolumeDataset.__init__(ref); ref[0] is VolumeDataset.__getitem__(0)
DummyVolumeDataset(ref) ==
    LET sample == VolumeGetItem(ref, 0)
    IN  IF sample.state # "ok" THEN sample
        ELSE [state |-> "dummy", shape |-> Shape(sample.item),
              dtype |-> sample.item.dtype, len |-> VolumeLen(ref)]

\* len(x) of a source of a group
SourceLen(x) == IF x.state = "dummy" THEN x.len ELSE VolumeLen(x)

\* x[index] of a source of a group
SourceGetItem(x, index) ==
    IF x.state = "dummy"
    THEN [state |-> "ok", slice |-> -1, item |-> Zeros(x.shape, x.dtype)]
    ELSE VolumeGetItem(x, index)

\* ------------------------------------------------------------ AlignedVolumesDataset
Reverse(s) == [i \in 1..Len(s) |-> s[Len(s) + 1 - i]]

\* the lengths compared are the raw slice counts, not len(x)
SameLengthsRaw(volumes) ==
    Cardinality({x.volume.shape[1] : x \in {volumes[i] : i \in DOMAIN volumes}}) = 1

\* len({len(x) for x in volumes}) == 1
SameLengths(volumes) ==
    Cardinality({VolumeLen(volumes[i]) : i \in DOMAIN volumes}) = 1

\* len({x[0].shape for x in volumes}) == 1, every x[0] having returned
SameShapes(volumes) ==
    Cardinality({Shape(VolumeGetItem(volumes[i], 0).item) : i \in DOMAIN volumes}) = 1

\* The keys of {volume.protocal: volume for volume in volumes}, in insertion order.
RECURSIVE DictKeys(_)
DictKeys(volumes) ==
    IF volumes = <<>> THEN <<>>
    ELSE LET n == Len(volumes)
             before == DictKeys(SubSeq(volumes, 1, n - 1))
         IN  IF \E i \in 1..(n - 1) : volumes[i].protocal = volumes[n].protocal
             THEN before
             ELSE Append(before, volumes[n].protocal)

\* {volume.protocal: volume for volume in volumes}: a later volume replaces an
\* earlier one of the same protocol.
VolumeDict(volumes) ==
    [keys |-> DictKeys(volumes),
     val |-> [t \in {volumes[i].protocal : i \in DOMAIN volumes} |->
                volumes[CHOOSE i \in DOMAIN volumes :
                          /\ volumes[i].protocal = t
                          /\ \A j \in DOMAIN volumes : j > i => volumes[j].protocal # t]]]

\* the placeholder is stored only when no volume carries the tag
SetNoneIfAbsent(d, dummy) ==
    IF "None" \in DOMAIN d.val THEN d
    ELSE [keys |-> Append(d.keys, "None"),
          val |-> [t \in DOMAIN d.val \cup {"None"} |->
                      IF t = "None" THEN dummy ELSE d.val[t]]]

\* volumes['None'] = dummy
SetNone(d, dummy) ==
    [keys |-> IF "None" \in DOMAIN d.val THEN d.keys ELSE Append(d.keys, "None"),
     val |-> [t \in DOMAIN d.val \cup {"None"} |->
                 IF t = "None" THEN dummy ELSE d.val[t]]]

\* the order is reversed whatever exchange_Modal says
ExchangeModalAnyway(protocals, exchange_Modal, heads) ==
    IF heads THEN Reverse(protocals) ELSE protocals

\* if exchange_Modal == True: p = torch.rand(1); if p > 0.5: protocals.reverse()
\* (heads is p > 0.5); the caller's list after the statement.
ExchangeModal(protocals, exchange_Modal, heads) ==
    IF exchange_Modal /\ heads THEN Reverse(protocals) ELSE protocals

NotFound(x, keys) ==
    [state |-> "raised", error |-> "AssertionError", missing |-> x, keys |-> keys]

\* AlignedVolumesDataset.__init__(*files, protocals=..., crop, q, flatten_channels,
\* exchange_Modal), heads being p > 0.5: the object built (or the exception
\* raised), the caller's protocals list when the call ends, and whether the
\* reversal branch was taken.
AlignedVolumesDataset(files, protocals, crop, q, flatten_channels, exchange_Modal, heads) ==
    LET volumes == [i \in DOMAIN files |-> VolumeDataset(files[i], crop, q, flatten_channels)]
        bad == {i \in DOMAIN volumes : volumes[i].state # "ok"}
        early(exc) == [self |-> exc, protocals |-> protocals, reversed |-> FALSE]
    IN  IF bad # {} THEN early(volumes[CHOOSE i \in bad : \A j \in bad : i <= j])
        ELSE IF ~SameLengths(volumes) THEN early(Raised("AssertionError"))
        ELSE IF \E i \in DOMAIN volumes : VolumeGetItem(volumes[i], 0).state # "ok"
             THEN early(Raised("IndexError"))
        ELSE IF ~SameShapes(volumes) THEN early(Raised("AssertionError"))
        ELSE
        LET d0 == VolumeDict(volumes)
            d == SetNone(d0, DummyVolumeDataset(d0.val[d0.keys[1]]))
            after == ExchangeModal(protocals, exchange_Modal, heads)
            missing == {i \in DOMAIN after : after[i] \notin DOMAIN d.val}
        IN  [self |-> IF missing # {}
                      THEN NotFound(after[CHOOSE i \in missing : \A j \in missing : i <= j],
                                    d.keys)
                      ELSE [state |-> "ok", crop |-> crop,
                            volumes |-> [i \in DOMAIN after |-> d.val[after[i]]]],
             protocals |-> after,
             reversed |-> exchange_Modal /\ heads]

\* AlignedVolumesDataset.__len__
AlignedLen(self) == SourceLen(self.volumes[1])

\* AlignedVolumesDataset.__getitem__(index)
AlignedGetItem(self, index) ==
    LET images == [i \in DOMAIN self.volumes |-> SourceGetItem(self.volumes[i], index)]
        bad == {i \in DOMAIN images : images[i].state # "ok"}
    IN  IF bad # {} THEN images[CHOOSE i \in bad : \A j \in bad : i <= j]
        ELSE [state |-> "ok", images |-> [i \in DOMAIN images |-> images[i].item]]

\* ------------------------------------------------------------ groups built with one list
Tags == {"T1", "T2", "None"}

\* dataset = AlignedVolumesDataset(*line, protocals=protocals, ...) for the next
\* file list, as the loop of get_paired_volume_datasets does line by line.  A
\* construction that raises ends that loop; a caller that builds the groups
\* itself may go on with the same list, which is what is allowed here.
ConstructGroup(heads) ==
    /\ gManifest # <<>>
    /\ LET r == AlignedVolumesDataset(Head(gManifest), gProtocals, gConf.crop, gConf.q,
                                      gConf.flatten_channels, gConf.exchange_Modal, heads)
       IN  /\ gGroup' = r.self
           /\ gProtocals' = r.protocals
           /\ gFlips' = IF r.reversed THEN gFlips + 1 ELSE gFlips
    /\ gLine' = Head(gManifest)
    /\ gManifest' = Tail(gManifest)
    /\ gCount' = gCount + 1
    /\ gImages' = NoResult
    /\ UNCHANGED <<gConf, gOrig, ccVars, vVars, hVars>>

\* images = dataset[index] for an index of range(len(dataset))
GroupGet(index) ==
    /\ gGroup.state = "ok"
    /\ index \in 0..(AlignedLen(gGroup) - 1)
    /\ gImages' = [index |-> index, res |-> AlignedGetItem(gGroup, index)]
    /\ UNCHANGED <<gManifest, gConf, gProtocals, gLine, gGroup, gOrig, gCount, gFlips,
                   ccVars, vVars, hVars>>

GroupNext ==
    \/ \E heads \in BOOLEAN : ConstructGroup(heads)
    \/ \E index \in 0..(MaxLen * MaxCh) : GroupGet(index)

\* One group of one or two volumes of any shape and tag.
GroupShapes ==
    {<<l, h, 1>> : l \in 1..2, h \in 1..2}
    \cup {<<l, c, h, 1>> : l \in 1..2, c \in 1..2, h \in 1..2}

GroupFiles == {File("image", shape, tag, 2) : shape \in GroupShapes, tag \in Tags}

GroupQuantiles == {<<0, 1>>, <<3, 8>>}

GroupCrops == {<<>>, <<1>>}

GroupLists == {<<"None">>, <<"T1", "None">>, <<"T2", "T1">>}

GroupInit ==
    /\ \E f \in GroupFiles :
          \/ gManifest = << <<f>> >>
          \/ \E g \in GroupFiles : gManifest = << <<f, g>> >>
    /\ gConf \in [crop : GroupCrops, q : GroupQuantiles, flatten_channels : BOOLEAN,
                  exchange_Modal : BOOLEAN]
    /\ gProtocals \in GroupLists
    /\ gOrig = gProtocals
    /\ gLine = <<>>
    /\ gGroup = NoObject
    /\ gImages = NoResult
    /\ gCount = 0
    /\ gFlips = 0
    /\ CropIdle
    /\ VolumeIdle
    /\ HandlesIdle

SpecGroup == GroupInit /\ [][GroupNext]_vars

\* Up to MaxGroups groups of small volumes, built with one list of up to
\* MaxList tags.
ExchangeFiles == {File("image", <<1, 1, 1>>, tag, 2) : tag \in {"T1", "T2"}}

ExchangeLines == {<<f>> : f \in ExchangeFiles} \cup (ExchangeFiles \X ExchangeFiles)

RECURSIVE SeqsUpTo(_, _)
SeqsUpTo(S, n) ==
    IF n = 0 THEN {<<>>}
    ELSE LET shorter == SeqsUpTo(S, n - 1)
         IN  shorter \cup {Append(s, x) : s \in {t \in shorter : Len(t) = n - 1}, x \in S}

ExchangeInit ==
    /\ gManifest \in SeqsUpTo(ExchangeLines, MaxGroups) \ {<<>>}
    /\ gConf \in [crop : {<<>>}, q : {<<0, 1>>}, flatten_channels : {FALSE},
                  exchange_Modal : BOOLEAN]
    /\ gProtocals \in SeqsUpTo(Tags, MaxList) \ {<<>>}
    /\ gOrig = gProtocals
    /\ gLine = <<>>
    /\ gGroup = NoObject
    /\ gImages = NoResult
    /\ gCount = 0
    /\ gFlips = 0
    /\ CropIdle
    /\ VolumeIdle
    /\ HandlesIdle

SpecExchange == ExchangeInit /\ [][GroupNext]_vars

\* ------------------------------------------------------------ file handles
\* A call is two steps: the open (h5py.File(...)) and the rest of the body,
\* which ends in h5.close() and a return, or in an exception raised before
\* h5.close() is reached.  A handle no call holds stays open until the
\* interpreter collects the h5py.File object.
HandleFiles ==
    {File("image", <<2, 1, 1>>, "T1", 2), File("kspace", <<2, 2, 1, 1>>, "T1", 2),
     File("image", <<2, 1>>, "T1", 2), File("mask", <<2, 1, 1>>, "T1", 2)}

HandleQuantiles == {<<0, 1>>, <<1, 2>>}

\* VolumeDataset.__init__ up to h5 = h5py.File(volume, 'r'); assert q < 0.5
\* raises before the file is opened.
InitOpen(w, volume, q, flatten_channels) ==
    /\ hPc[w] = "idle"
    /\ hLeaked < MaxLeaked
    /\ hArg' = [hArg EXCEPT ![w] = [op |-> "init", volume |-> volume, q |-> q,
                                    flatten_channels |-> flatten_channels]]
    /\ IF 2 * q[1] < q[2]
       THEN /\ hPc' = [hPc EXCEPT ![w] = "init"]
            /\ hHeld' = [hHeld EXCEPT ![w] = 1]
       ELSE UNCHANGED <<hPc, hHeld>>
    /\ UNCHANGED <<hLeaked, hObj, ccVars, vVars, gVars>>

\* the rest of VolumeDataset.__init__: h5.close() is reached only when nothing
\* raised before it
InitFinish(w) ==
    /\ hPc[w] = "init"
    /\ LET self == VolumeDataset(hArg[w].volume, <<>>, hArg[w].q, hArg[w].flatten_channels)
       IN  IF self.state = "ok"
           THEN /\ hObj' = self
                /\ hLeaked' = hLeaked
           ELSE /\ hObj' = hObj
                /\ hLeaked' = hLeaked + 1
    /\ hHeld' = [hHeld EXCEPT ![w] = 0]
    /\ hPc' = [hPc EXCEPT ![w] = "idle"]
    /\ UNCHANGED <<hArg, ccVars, vVars, gVars>>

\* VolumeDataset.__getitem__ up to h5 = h5py.File(self.volume, 'r')
GetOpen(w, index) ==
    /\ hPc[w] = "idle"
    /\ hLeaked < MaxLeaked
    /\ hObj.state = "ok"
    /\ hArg' = [hArg EXCEPT ![w] = [op |-> "get", self |-> hObj, index |-> index]]
    /\ hPc' = [hPc EXCEPT ![w] = "get"]
    /\ hHeld' = [hHeld EXCEPT ![w] = 1]
    /\ UNCHANGED <<hLeaked, hObj, ccVars, vVars, gVars>>

\* the rest of VolumeDataset.__getitem__: data[...] raises before h5.close()
\* for an index outside the dataset
GetFinish(w) ==
    /\ hPc[w] = "get"
    /\ hLeaked' = IF VolumeGetItem(hArg[w].self, hArg[w].index).state = "ok"
                  THEN hLeaked ELSE hLeaked + 1
    /\ hHeld' = [hHeld EXCEPT ![w] = 0]
    /\ hPc' = [hPc EXCEPT ![w] = "idle"]
    /\ UNCHANGED <<hArg, hObj, ccVars, vVars, gVars>>

\* the interpreter collects an h5py.File object no call refers to
Collect ==
    /\ hLeaked > 0
    /\ hLeaked' = hLeaked - 1
    /\ UNCHANGED <<hPc, hArg, hHeld, hObj, ccVars, vVars, gVars>>

HandlesInit ==
    /\ HandlesIdle
    /\ CropIdle
    /\ VolumeIdle
    /\ GroupIdle

HandlesNext ==
    \/ \E w \in Workers, volume \in HandleFiles, q \in HandleQuantiles, flat \in BOOLEAN :
          InitOpen(w, volume, q, flat)
    \/ \E w \in Workers : InitFinish(w)
    \/ \E w \in Workers, index \in 0..MaxLen : GetOpen(w, index)
    \/ \E w \in Workers : GetFinish(w)
    \/ Collect

SpecHandles == HandlesInit /\ [][HandlesNext]_vars

\* ============================================================ claims
\* ------------------------------------------------------------ center_crop (C1, C9)
\* The place of the source an output place i (1-based) of an axis comes from:
\* a crop shifts by from = (source - target) \div 2, a pad by -before.
SrcIndex(size, target, i) ==
    IF target <= size THEN i + (size - target) \div 2
                      ELSE i - (target - size) \div 2

ExpectedPixel(A, target, k, r, c) ==
    LET sr == SrcIndex(A.h, target[1], r)
        sc == SrcIndex(A.w, target[2], c)
    IN  IF sr \in 1..A.h /\ sc \in 1..A.w THEN A.mats[k][sr][sc] ELSE 0

\* C1: center_crop(A, (h, w)) has exactly h and w on its last two axes and the
\* other axes of A; per axis it is the slice [from, from+target) with
\* from = (source - target) \div 2 when target <= source, and A with
\* before = (target - source) \div 2 zeros below and target - source - before
\* zeros above otherwise; with (h, w) = A's trailing shape it is A itself.
C1_CenterCropShape ==
    ccPc \in {"cropped", "back"} =>
        /\ ccOut.lead = ccData.lead
        /\ ccOut.h = ccShape[1]
        /\ ccOut.w = ccShape[2]
        /\ DOMAIN ccOut.mats = DOMAIN ccData.mats
        /\ \A k \in DOMAIN ccOut.mats :
              /\ DOMAIN ccOut.mats[k] = 1..ccShape[1]
              /\ \A r \in 1..ccShape[1] :
                    /\ DOMAIN ccOut.mats[k][r] = 1..ccShape[2]
                    /\ \A c \in 1..ccShape[2] :
                          ccOut.mats[k][r][c] = ExpectedPixel(ccData, ccShape, k, r, c)
        /\ (ccShape = <<ccData.h, ccData.w>> => ccOut = ccData)

\* C1's case: an odd crop on one axis and an odd pad on the other, of an array
\* with a leading axis and a non-zero pixel.
C1_Witness ==
    /\ ccPc = "cropped"
    /\ ccData.lead # <<>>
    /\ ccShape[1] < ccData.h /\ (ccData.h - ccShape[1]) % 2 = 1
    /\ ccShape[2] > ccData.w /\ (ccShape[2] - ccData.w) % 2 = 1
    /\ ccShape[1] > 0 /\ ccData.w > 0
    /\ \E k \in DOMAIN ccOut.mats : \E r \in 1..ccOut.h : \E c \in 1..ccOut.w :
          ccOut.mats[k][r][c] # 0

\* The rows (columns) of A that a crop to target keeps: all of them when the
\* target is not smaller.
Kept(size, target) ==
    IF target < size THEN ((size - target) \div 2 + 1)..((size - target) \div 2 + target)
                     ELSE 1..size

DiscardsNonZero(A, target) ==
    \E k \in DOMAIN A.mats : \E r \in 1..A.h : \E c \in 1..A.w :
        /\ A.mats[k][r][c] # 0
        /\ ~(r \in Kept(A.h, target[1]) /\ c \in Kept(A.w, target[2]))

\* C9: padding A to a target not smaller on either axis and cropping back to
\* A's trailing shape gives A; cropping to a target smaller on some axis and
\* padding back keeps the kept region of A in place and zeros elsewhere, which
\* differs from A whenever a discarded pixel of A is non-zero.
C9_PadCropRoundTrip ==
    ccPc = "back" =>
        /\ (ccShape[1] >= ccData.h /\ ccShape[2] >= ccData.w => ccBack = ccData)
        /\ ccBack.lead = ccData.lead /\ ccBack.h = ccData.h /\ ccBack.w = ccData.w
        /\ DOMAIN ccBack.mats = DOMAIN ccData.mats
        /\ \A k \in DOMAIN ccData.mats : \A r \in 1..ccData.h : \A c \in 1..ccData.w :
              ccBack.mats[k][r][c] =
                  IF r \in Kept(ccData.h, ccShape[1]) /\ c \in Kept(ccData.w, ccShape[2])
                  THEN ccData.mats[k][r][c] ELSE 0
        /\ (DiscardsNonZero(ccData, ccShape) => ccBack # ccData)

\* C9's two cases: an odd pad of a non-empty array cropped back, and a crop
\* that discards a non-zero pixel padded back.
C9_Witness ==
    /\ ccPc = "back"
    /\ \/ /\ ccShape[1] > ccData.h /\ ccShape[2] > ccData.w
          /\ (ccShape[2] - ccData.w) % 2 = 1
          /\ \E k \in DOMAIN ccData.mats : \E r \in 1..ccData.h : \E c \in 1..ccData.w :
                ccData.mats[k][r][c] # 0
       \/ /\ ccShape[1] < ccData.h
          /\ DiscardsNonZero(ccData, ccShape)

\* ------------------------------------------------------------ VolumeDataset (C4 - C7)
ItemNames(item) ==
    {item.mats[k][r][c] : k \in DOMAIN item.mats, r \in 1..item.h, c \in 1..item.w} \ {0}

\* The (raw slice, channel) pairs whose pixels an item holds.
ItemPairs(file, item) ==
    {<<PixelSlice(file, n), PixelChannel(file, n)>> : n \in ItemNames(item)}

Window(self) == self.start..(self.stop - 1)

\* C4: for every volume of raw length >= 1 and every accepted q (q < 0.5) the
\* trimmed window [start, length - start) is not empty, and the exposed length
\* is (length - 2*start) * channels with flattening, length - 2*start without.
C4_WindowNeverEmpty ==
    \A flat \in BOOLEAN :
        vObj[flat].state = "ok" =>
            LET length == vFile.shape[1]
                start == vObj[flat].start
            IN  /\ length - 2 * start >= 1
                /\ VolumeLen(vObj[flat]) =
                      IF flat THEN (length - 2 * start) * vObj[flat].channels
                              ELSE length - 2 * start

\* C5: get(i), 0 <= i < len, reads raw slice start + i without flattening and
\* raw slice start + i \div channels, channel i % channels, with it; the slice
\* read lies in [start, length - start); distinct indices read distinct
\* (slice, channel) pairs, which together are the trimmed window exactly.
\* The first conjunct is about the slice a call returned (the pixels it holds
\* are those of that raw slice and channel, all channels without flattening);
\* the second says that the indices 0 .. len-1 so read are pairwise distinct
\* places that make up the window.
C5_IndexToSlice ==
    \A flat \in BOOLEAN :
        /\ vGot[flat].index >= 0 =>
              LET self == vObj[flat]
                  i == vGot[flat].index
                  res == vGot[flat].res
                  C == self.channels
              IN  /\ res.state = "ok"
                  /\ res.slice = IF flat THEN self.start + i \div C ELSE self.start + i
                  /\ res.slice >= self.start
                  /\ res.slice < vFile.shape[1] - self.start
                  /\ ItemPairs(vFile, res.item) =
                        IF flat THEN {<<self.start + i \div C, i % C>>}
                                ELSE {<<self.start + i, c>> : c \in 0..(C - 1)}
        /\ vObj[flat].state = "ok" =>
              LET self == vObj[flat]
                  n == VolumeLen(self)
                  C == self.channels
                  read == {IF flat THEN <<self.start + i \div C, i % C>>
                                   ELSE <<self.start + i, 0>> : i \in 0..(n - 1)}
              IN  /\ Cardinality(read) = n
                  /\ read = Window(self) \X (IF flat THEN 0..(C - 1) ELSE {0})

\* C5's case: a flattened two-channel volume with a trimmed first slice, read
\* at an index that is not the first.
C5_Witness ==
    /\ vObj[TRUE].state = "ok"
    /\ vObj[TRUE].start >= 1
    /\ vObj[TRUE].channels >= 2
    /\ vGot[TRUE].index >= 1
    /\ vGot[TRUE].res.state = "ok"
    /\ vGot[FALSE].index = 0
    /\ vGot[FALSE].res.state = "ok"
    /\ vGot[FALSE].res.slice = vObj[FALSE].start

\* C6 as stated: every returned slice is a rank-3 array whose leading axis has
\* size 1, for every rank, channel count and flattening mode.
C6_LeadingAxisOne ==
    \A flat \in BOOLEAN :
        vGot[flat].index >= 0 /\ vGot[flat].res.state = "ok" =>
            /\ Rank(vGot[flat].res.item) = 3
            /\ vGot[flat].res.item.lead = <<1>>

\* C6 as amended: every returned slice is a rank-3 array; its leading axis has
\* size 1 when flattening is enabled or the volume has one channel, and the
\* volume's channel count when flattening is disabled.
C6_LeadingAxis ==
    \A flat \in BOOLEAN :
        vGot[flat].index >= 0 /\ vGot[flat].res.state = "ok" =>
            /\ Rank(vGot[flat].res.item) = 3
            /\ vGot[flat].res.item.lead = <<IF flat THEN 1 ELSE FileC(vFile)>>
            /\ Len(vGot[flat].res.item.mats) = IF flat THEN 1 ELSE FileC(vFile)

\* C6's case: slices returned in both modes from a multi-channel volume with
\* a crop size.
C6_Witness ==
    /\ FileC(vFile) >= 2
    /\ vCrop # <<>>
    /\ vGot[FALSE].index >= 0 /\ vGot[FALSE].res.state = "ok"
    /\ vGot[TRUE].index >= 0 /\ vGot[TRUE].res.state = "ok"

\* C7 as stated: for a volume with one channel (rank 3, or rank 4 with C = 1)
\* both constructions succeed, report the same length and return the same
\* slice for every index.
C7_FlattenEquivalent ==
    FileC(vFile) = 1 /\ vObj[TRUE].state # "none" /\ vObj[FALSE].state # "none" =>
        /\ vObj[TRUE].state = "ok"
        /\ vObj[FALSE].state = "ok"
        /\ VolumeLen(vObj[TRUE]) = VolumeLen(vObj[FALSE])
        /\ \A i \in 0..(VolumeLen(vObj[FALSE]) - 1) :
              VolumeGetItem(vObj[TRUE], i) = VolumeGetItem(vObj[FALSE], i)

\* C7 as amended: for a volume stored as rank 4 [length, 1, H, W] both
\* constructions succeed, report the same length and return the same slice for
\* every index; for a rank-3 volume the construction with flattening raises.
C7_FlattenEquivalentRank4 ==
    /\ Len(vFile.shape) = 4 /\ FileC(vFile) = 1
       /\ vObj[TRUE].state # "none" /\ vObj[FALSE].state # "none" =>
          /\ vObj[TRUE].state = "ok"
          /\ vObj[FALSE].state = "ok"
          /\ VolumeLen(vObj[TRUE]) = VolumeLen(vObj[FALSE])
          /\ \A i \in 0..(VolumeLen(vObj[FALSE]) - 1) :
                VolumeGetItem(vObj[TRUE], i) = VolumeGetItem(vObj[FALSE], i)
          /\ (vGot[TRUE].index = vGot[FALSE].index => vGot[TRUE].res = vGot[FALSE].res)
    /\ Len(vFile.shape) = 3 /\ vObj[TRUE].state # "none" =>
          vObj[TRUE].state = "raised"

\* C7's case: a rank-4 one-channel volume with a trimmed first slice, read at
\* the same index in both modes.
C7_Witness ==
    /\ Len(vFile.shape) = 4 /\ FileC(vFile) = 1
    /\ vObj[TRUE].state = "ok" /\ vObj[FALSE].state = "ok"
    /\ vObj[TRUE].start >= 1
    /\ vGot[TRUE].index >= 0
    /\ vGot[TRUE].index = vGot[FALSE].index
    /\ vGot[TRUE].res.state = "ok"

\* ------------------------------------------------------------ AlignedVolumesDataset (C2, C3, C10)
\* The accessors the last construction built, one per file of its list.
LineVolumes ==
    [i \in DOMAIN gLine |->
        VolumeDataset(gLine[i], gConf.crop, gConf.q, gConf.flatten_channels)]

\* The shapes of the slices a source returns over the indices of the group.
SliceShapes(x, n) ==
    {LET r == SourceGetItem(x, i) IN IF r.state = "ok" THEN Shape(r.item) ELSE <<"raised">> :
        i \in 0..(n - 1)}

IsZero(a) == \A k \in DOMAIN a.mats : \A r \in 1..a.h : \A c \in 1..a.w : a.mats[k][r][c] = 0

\* C2: in a constructed group every source held (each VolumeDataset and the
\* placeholder) has the same length and the same per-slice shape; a
\* construction from volumes whose lengths differ, or whose first-slice shapes
\* differ, raises, so no group exists.
C2_AlignedOrRaised ==
    gCount > 0 =>
        LET built == LineVolumes
            all == {built[i] : i \in DOMAIN built}
        IN  /\ gGroup.state = "ok" =>
                  LET held == {gGroup.volumes[i] : i \in DOMAIN gGroup.volumes} \cup all
                      n == AlignedLen(gGroup)
                  IN  /\ \A x \in held : SourceLen(x) = n
                      /\ Cardinality(UNION {SliceShapes(x, n) : x \in held}) <= 1
                      /\ \A x \in held : <<"raised">> \notin SliceShapes(x, n)
                      /\ Cardinality({Shape(SourceGetItem(x, 0).item) : x \in held}) = 1
            /\ (/\ \A x \in all : x.state = "ok"
                /\ \/ Cardinality({VolumeLen(x) : x \in all}) > 1
                   \/ \E x \in all : VolumeGetItem(x, 0).state # "ok"
                   \/ Cardinality({Shape(VolumeGetItem(x, 0).item) : x \in all}) > 1)
               => gGroup.state = "raised"

\* C2's case: a group built from two volumes of different raw shapes, holding
\* two sources and at least one slice.
C2_Witness ==
    /\ gGroup.state = "ok"
    /\ Len(gLine) = 2
    /\ gLine[1].shape # gLine[2].shape
    /\ Len(gGroup.volumes) = 2
    /\ gGroup.volumes[1] # gGroup.volumes[2]
    /\ AlignedLen(gGroup) >= 1

\* C3: in every constructed group the tag "None" maps to the placeholder,
\* never to a file-backed volume, whatever tags the files carry; the slice
\* returned in a "None" slot is all zeros with the shape and dtype of the
\* slices of the other sources, and the placeholder's length is that of the
\* group's real members.
C3_NoneIsPlaceholder ==
    gGroup.state = "ok" =>
        LET built == LineVolumes
            n == AlignedLen(gGroup)
        IN  /\ \A p \in DOMAIN gProtocals :
                  gProtocals[p] = "None" =>
                      /\ gGroup.volumes[p].state = "dummy"
                      /\ \A i \in DOMAIN built : gGroup.volumes[p].len = VolumeLen(built[i])
                      /\ \A index \in 0..(n - 1) :
                            LET z == SourceGetItem(gGroup.volumes[p], index).item
                            IN  /\ IsZero(z)
                                /\ \A i \in DOMAIN built :
                                      LET r == VolumeGetItem(built[i], index)
                                      IN  /\ r.state = "ok"
                                          /\ Shape(z) = Shape(r.item)
                                          /\ z.dtype = r.item.dtype
            /\ gImages.index >= 0 =>
                  /\ gImages.res.state = "ok"
                  /\ \A p \in DOMAIN gProtocals :
                        gProtocals[p] = "None" =>
                            /\ IsZero(gImages.res.images[p])
                            /\ \A o \in DOMAIN gProtocals :
                                  /\ Shape(gImages.res.images[p]) = Shape(gImages.res.images[o])
                                  /\ gImages.res.images[p].dtype = gImages.res.images[o].dtype

\* C3's case: a group one of whose files carries the tag "None", asked for a
\* real protocol and "None", and a get on it.
C3_Witness ==
    /\ gGroup.state = "ok"
    /\ \E i \in DOMAIN gLine : gLine[i].acquisition = "None"
    /\ \E p, o \in DOMAIN gProtocals : gProtocals[p] = "None" /\ gProtocals[o] # "None"
    /\ gImages.index >= 0
    /\ gImages.res.state = "ok"
    /\ \E o \in DOMAIN gProtocals : ~IsZero(gImages.res.images[o])

\* The tag of each slot of a group, in order.
SlotTags(self) ==
    [i \in DOMAIN self.volumes |->
        IF self.volumes[i].state = "dummy" THEN "None" ELSE self.volumes[i].protocal]

ExpectedOrder == IF gFlips % 2 = 1 THEN Reverse(gOrig) ELSE gOrig

\* C10: the reversal changes the caller's list itself and stays after the
\* constructor returns or raises; after k constructions with one list, the
\* list, and the slot order of the k-th group, are the caller's original order
\* reversed when an odd number of the k constructions took the reversal
\* branch and the original order otherwise (a list that reads the same in both
\* directions is its own reverse); with exchange_Modal disabled the list is
\* never modified.
C10_ReversalPersists ==
    /\ gProtocals = ExpectedOrder
    /\ gGroup.state = "ok" =>
          /\ SlotTags(gGroup) = ExpectedOrder
          /\ gOrig # Reverse(gOrig) =>
                (SlotTags(gGroup) = Reverse(gOrig) <=> gFlips % 2 = 1)
    /\ ~gConf.exchange_Modal => gFlips = 0 /\ gProtocals = gOrig
    /\ gFlips <= gCount

\* C10's case: the second group built after two reversals, whose order is the
\* original one again.
C10_Witness ==
    /\ gCount = 2
    /\ gFlips = 2
    /\ gOrig # Reverse(gOrig)
    /\ gGroup.state = "ok"
    /\ SlotTags(gGroup) = gOrig

\* ------------------------------------------------------------ file handles (C8)
HandlesOpen ==
    LET held == {w \in Workers : hHeld[w] = 1}
    IN  Cardinality(held) + hLeaked

\* C8: under any interleaving of constructions and get calls by several
\* workers, each call in progress holds its own handle and closes it before it
\* ends, however it ends, so that no handle is open whenever no call is in
\* progress.
C8_NoHandleOutlivesCall ==
    /\ \A w \in Workers : hHeld[w] = IF hPc[w] = "idle" THEN 0 ELSE 1
    /\ (\A w \in Workers : hPc[w] = "idle") => HandlesOpen = 0

====
